---- MODULE Spec2Model ----
(***************************************************************************)
(* A model of the pomo engine: the Session phase state machine             *)
(* (engine/session.go, carried in src/engine/timer.go lines 116-250), the  *)
(* Timer event loop (src/engine/timer.go lines 1-114), the MockClock       *)
(* (src/engine/clock.go) and the consumer in cmd/start.go                  *)
(* (src/unnamed/part_001).                                                 *)
(*                                                                         *)
(* Time is counted in whole model units; a Duration is an integer number   *)
(* of units and an instant is the number of units since the clock's start. *)
(***************************************************************************)
EXTENDS Integers, Sequences, FiniteSets, TLC

\* ------------------------------------------------------------------ bounds
MaxWork == 2
MaxBreak == 1
MaxEvery == 1
MaxCycles == 2
MaxTick == 1
MaxAdvance == 1
MaxTime == 3
MaxPhases == 3
\* The bounds of the runs that nothing cancels: cycles, and the sum of the
\* durations of all phases.
MaxLiveCycles == 3
MaxLiveTime == 4
\* The bounds of the runs that call the Session alone.
MaxSessionEvery == 3
MaxSessionCycles == 4
MaxCalls == 8
\* The bounds of the runs that call the MockClock alone.
MaxClockTickers == 2
MaxClockInterval == 2
MaxClockAdvance == 2
MaxClockTime == 3

\* ------------------------------------------------------------------ Phase
PhaseWork == "Work"
PhaseShortBreak == "ShortBreak"
PhaseLongBreak == "LongBreak"
PhaseDone == "Done"

Phase == {PhaseWork, PhaseShortBreak, PhaseLongBreak, PhaseDone}

\* The outcomes of Run: not returned yet, nil, context.Canceled.
NotReturned == "running"
ErrNil == "nil"
ErrCanceled == "context.Canceled"

\* ------------------------------------------------------------------ Config
\* The Configs with at most maxEvery for LongBreakEvery and maxCycles cycles.
ConfigsUpTo(maxEvery, maxCycles) ==
  [WorkDuration : 0..MaxWork,
   ShortBreakDuration : 0..MaxBreak,
   LongBreakDuration : 0..MaxBreak,
   LongBreakEvery : 0..maxEvery,
   TotalCycles : 0..maxCycles]

Config == ConfigsUpTo(MaxEvery, MaxCycles)

ZeroConfig ==
  [WorkDuration |-> 0, ShortBreakDuration |-> 0, LongBreakDuration |-> 0,
   LongBreakEvery |-> 0, TotalCycles |-> 0]

VARIABLES
  cfg,          \* the Config handed to NewSession / NewTimerWithClock
  tickInterval, \* the tickInterval handed to NewTimerWithClock
  built,        \* TRUE once the Session has been constructed
  session,      \* the Session struct
  visited,      \* history: the phases the Session has been in, in order
  lastCall,     \* history: phase before and return value of the last NextPhase()
  lastDuration, \* history: what the last direct PhaseDuration() returned, -1 if none
  advanceCall,  \* history: the clock before the last direct Advance(d), and d
  clock,        \* the MockClock: current instant and registered tickers
  pc,           \* where the goroutine running Timer.Run is
  start,        \* runPhase's local start
  duration,     \* runPhase's local duration
  ticker,       \* runPhase's local ticker: its index in clock.tickers, 0 if none
  event,        \* runPhase's local event
  received,     \* history: the events handed over the events channel, in order
  closed,       \* how many times close(events) has run
  result,       \* what Run returned
  ctxDone,      \* TRUE once cancel() has been called
  cpc,          \* where runStart's consuming loop is
  ticksConsumed, \* history: ticks received from ticker.C() in this run
  earlyCancel,  \* history: cancel() was called before any tick was consumed
  lateSend      \* history: an event was sent after close(events)

vars ==
  <<cfg, tickInterval, lastDuration, advanceCall, built, session, visited,
    lastCall, clock, pc, start,
    duration, ticker, event, received, closed, result, ctxDone, cpc,
    ticksConsumed, earlyCancel, lateSend>>

\* What Timer.Run and its environment never change once they are set up.
harnessVars == <<cfg, tickInterval, lastDuration, advanceCall>>
sessionVars == <<session, visited, lastCall>>
timerVars == <<pc, start, duration, ticker, event>>
channelVars == <<received, closed, result, cpc, lateSend>>
cancelVars == <<ctxDone, earlyCancel>>

\* ------------------------------------------------------------------ Session
ZeroSession ==
  [config |-> ZeroConfig, currentPhase |-> PhaseWork, cyclesComplete |-> 0,
   totalPhases |-> 0, phasesComplete |-> 0]

\* Variant of calculateTotalPhases: the long breaks are not taken out of the
\* short breaks, so each long break is counted twice.
calculateTotalPhases_DoubleCount(s) ==
  IF s.config.TotalCycles = 0 THEN 0
  ELSE LET cycles == s.config.TotalCycles
       IN IF s.config.LongBreakEvery > 0
          THEN LET longBreaks == (cycles - 1) \div s.config.LongBreakEvery
                   shortBreaks == cycles - 1
               IN cycles + longBreaks + shortBreaks
          ELSE cycles + (cycles - 1)

\* Variant of calculateTotalPhases: a break is counted after every cycle,
\* the last one included.
calculateTotalPhases_BreakAfterLast(s) ==
  IF s.config.TotalCycles = 0 THEN 0
  ELSE LET cycles == s.config.TotalCycles
       IN IF s.config.LongBreakEvery > 0
          THEN LET longBreaks == cycles \div s.config.LongBreakEvery
                   shortBreaks == cycles - longBreaks
               IN cycles + longBreaks + shortBreaks
          ELSE cycles + cycles

calculateTotalPhases(s) ==
  IF s.config.TotalCycles = 0 THEN 0
  ELSE LET cycles == s.config.TotalCycles
       IN IF s.config.LongBreakEvery > 0
          THEN LET longBreaks == (cycles - 1) \div s.config.LongBreakEvery
                   shortBreaks == cycles - 1 - longBreaks
               IN cycles + longBreaks + shortBreaks
          ELSE cycles + (cycles - 1)

NewSession(c) ==
  LET s == [ZeroSession EXCEPT !.config = c, !.currentPhase = PhaseWork]
  IN [s EXCEPT !.totalPhases = calculateTotalPhases(s)]

CurrentPhase(s) == s.currentPhase
CyclesComplete(s) == s.cyclesComplete
TotalCycles(s) == s.config.TotalCycles
TotalPhases(s) == s.totalPhases
PhasesComplete(s) == s.phasesComplete

PhaseDuration(s) ==
  CASE s.currentPhase = PhaseWork -> s.config.WorkDuration
    [] s.currentPhase = PhaseShortBreak -> s.config.ShortBreakDuration
    [] s.currentPhase = PhaseLongBreak -> s.config.LongBreakDuration
    [] OTHER -> 0

\* The switch of NextPhase on a Session that is not Done, with the comparison
\* `reached` of the completed cycles with the bound, the guard `bounded` of
\* that comparison and the phase `afterLong` that follows a LongBreak.
NextPhaseSwitch(s, bounded, reached, afterLong) ==
  LET s1 == [s EXCEPT !.phasesComplete = @ + 1]
  IN IF s1.currentPhase = PhaseWork
     THEN LET s2 == [s1 EXCEPT !.cyclesComplete = @ + 1]
          IN IF bounded /\ reached
             THEN [s2 EXCEPT !.currentPhase = PhaseDone]
             ELSE IF s2.config.LongBreakEvery > 0
                     /\ s2.cyclesComplete % s2.config.LongBreakEvery = 0
                  THEN [s2 EXCEPT !.currentPhase = PhaseLongBreak]
                  ELSE [s2 EXCEPT !.currentPhase = PhaseShortBreak]
     ELSE IF s1.currentPhase = PhaseLongBreak
          THEN [s1 EXCEPT !.currentPhase = afterLong]
          ELSE [s1 EXCEPT !.currentPhase = PhaseWork]

\* Variant of NextPhase: `>` for `>=` in the comparison with TotalCycles.
NextPhase_StrictBound(s) ==
  IF s.currentPhase = PhaseDone THEN s
  ELSE NextPhaseSwitch(s, s.config.TotalCycles > 0,
                       s.cyclesComplete + 1 > s.config.TotalCycles, PhaseWork)

\* Variant of NextPhase: `case PhaseShortBreak:` alone, LongBreak is not left.
NextPhase_LongBreakSticks(s) ==
  IF s.currentPhase = PhaseDone THEN s
  ELSE NextPhaseSwitch(s, s.config.TotalCycles > 0,
                       s.cyclesComplete + 1 >= s.config.TotalCycles,
                       PhaseLongBreak)

\* Variant of NextPhase: no early return on PhaseDone.
NextPhase_NoDoneReturn(s) ==
  IF s.currentPhase = PhaseDone THEN [s EXCEPT !.phasesComplete = @ + 1]
  ELSE NextPhaseSwitch(s, s.config.TotalCycles > 0,
                       s.cyclesComplete + 1 >= s.config.TotalCycles, PhaseWork)

\* Variant of NextPhase: no `TotalCycles > 0` before the comparison.
NextPhase_NoBoundGuard(s) ==
  IF s.currentPhase = PhaseDone THEN s
  ELSE NextPhaseSwitch(s, TRUE,
                       s.cyclesComplete + 1 >= s.config.TotalCycles, PhaseWork)

\* Variant of NextPhase: the multiple of LongBreakEvery is looked for in the
\* count of cycles before the one that just completed.
NextPhase_ModuloBeforeIncrement(s) ==
  IF s.currentPhase = PhaseDone THEN s
  ELSE LET s1 == [s EXCEPT !.phasesComplete = @ + 1]
       IN IF s1.currentPhase = PhaseWork
          THEN LET s2 == [s1 EXCEPT !.cyclesComplete = @ + 1]
               IN IF s2.config.TotalCycles > 0
                     /\ s2.cyclesComplete >= s2.config.TotalCycles
                  THEN [s2 EXCEPT !.currentPhase = PhaseDone]
                  ELSE IF s2.config.LongBreakEvery > 0
                          /\ s.cyclesComplete % s2.config.LongBreakEvery = 0
                       THEN [s2 EXCEPT !.currentPhase = PhaseLongBreak]
                       ELSE [s2 EXCEPT !.currentPhase = PhaseShortBreak]
          ELSE [s1 EXCEPT !.currentPhase = PhaseWork]

\* Variant of NextPhase: phasesComplete++ sits in `case PhaseWork:`.
NextPhase_CountsWorkOnly(s) ==
  IF s.currentPhase = PhaseDone THEN s
  ELSE IF s.currentPhase = PhaseWork
       THEN NextPhaseSwitch(s, s.config.TotalCycles > 0,
                            s.cyclesComplete + 1 >= s.config.TotalCycles,
                            PhaseWork)
       ELSE [s EXCEPT !.currentPhase = PhaseWork]

\* The Session after NextPhase(); the value returned is its currentPhase.
NextPhase(s) ==
  IF s.currentPhase = PhaseDone THEN s
  ELSE LET s1 == [s EXCEPT !.phasesComplete = @ + 1]
       IN IF s1.currentPhase = PhaseWork
          THEN LET s2 == [s1 EXCEPT !.cyclesComplete = @ + 1]
               IN IF s2.config.TotalCycles > 0
                     /\ s2.cyclesComplete >= s2.config.TotalCycles
                  THEN [s2 EXCEPT !.currentPhase = PhaseDone]
                  ELSE IF s2.config.LongBreakEvery > 0
                          /\ s2.cyclesComplete % s2.config.LongBreakEvery = 0
                       THEN [s2 EXCEPT !.currentPhase = PhaseLongBreak]
                       ELSE [s2 EXCEPT !.currentPhase = PhaseShortBreak]
          ELSE [s1 EXCEPT !.currentPhase = PhaseWork]

\* A call s.NextPhase() on the model's Session, with the history it leaves.
CallNextPhase ==
  /\ session' = NextPhase(session)
  /\ lastCall' = [from |-> session.currentPhase,
                  ret |-> NextPhase(session).currentPhase]
  /\ visited' = IF session.currentPhase = PhaseDone THEN visited
                ELSE Append(visited, NextPhase(session).currentPhase)

\* ------------------------------------------------------------------ MockClock
NewMockClock(startInstant) == [current |-> startInstant, tickers |-> <<>>]

Now(m) == m.current

\* The clock after m.NewTicker(d); the ticker returned is the last of m.tickers.
NewTicker(m, d) ==
  [m EXCEPT !.tickers =
     Append(@, [interval |-> d, ch |-> <<>>, nextTick |-> m.current + d,
                stopped |-> FALSE])]

\* The clock after Stop() on its i-th ticker.
Stop(m, i) == [m EXCEPT !.tickers[i].stopped = TRUE]

\* The index of the ticker the scan of Advance's loop body selects, 0 for nil.
RECURSIVE EarliestFrom(_, _, _)
EarliestFrom(ts, i, earliest) ==
  IF i > Len(ts) THEN earliest
  ELSE IF ts[i].stopped THEN EarliestFrom(ts, i + 1, earliest)
  ELSE IF earliest = 0 \/ ts[i].nextTick < ts[earliest].nextTick
       THEN EarliestFrom(ts, i + 1, i)
       ELSE EarliestFrom(ts, i + 1, earliest)

Earliest(m) == EarliestFrom(m.tickers, 1, 0)

\* Variant of TrySend: the channel has room for every tick.
TrySend_Queues(ch, t) == Append(ch, t)

\* The non-blocking send of instant t on a ticker's channel of capacity 1.
TrySend(ch, t) == IF Len(ch) < 1 THEN Append(ch, t) ELSE ch

RECURSIVE AdvanceLoop(_, _)
AdvanceLoop(m, target) ==
  IF ~(m.current < target) THEN m
  ELSE LET e == Earliest(m)
       IN IF e = 0 \/ m.tickers[e].nextTick > target
          THEN [m EXCEPT !.current = target]
          ELSE LET t == m.tickers[e].nextTick
               IN AdvanceLoop(
                    [m EXCEPT !.current = t,
                              !.tickers[e].ch = TrySend(@, t),
                              !.tickers[e].nextTick = @ + m.tickers[e].interval],
                    target)

\* The clock after m.Advance(d).
Advance(m, d) == AdvanceLoop(m, m.current + d)

\* ------------------------------------------------------------------ TimerEvent
ZeroEvent ==
  [Phase |-> PhaseWork, Elapsed |-> 0, Remaining |-> 0, Total |-> 0,
   Fraction |-> <<0, 1>>, PhaseComplete |-> FALSE, CycleNum |-> 0,
   TotalCycles |-> 0, PhaseNum |-> 0, TotalPhases |-> 0]

\* Variant of Fraction: no clamp to 1.0.
Fraction_NoClamp(elapsed, d) == <<elapsed, d>>

\* float64(elapsed) / float64(duration), clamped to 1.0, as a quotient
\* <<numerator, denominator>> with a positive denominator.
Fraction(elapsed, d) == IF elapsed > d THEN <<1, 1>> ELSE <<elapsed, d>>

\* Variant of BuildEvent: Elapsed and Remaining carry each other's value.
BuildEvent_SwappedFields(s, now, st, d) ==
  LET elapsed == now - st
      remaining == IF d - elapsed < 0 THEN 0 ELSE d - elapsed
  IN [Phase |-> CurrentPhase(s),
      Elapsed |-> remaining,
      Remaining |-> elapsed,
      Total |-> d,
      Fraction |-> Fraction(elapsed, d),
      PhaseComplete |-> elapsed >= d,
      CycleNum |-> CyclesComplete(s) + 1,
      TotalCycles |-> TotalCycles(s),
      PhaseNum |-> PhasesComplete(s) + 1,
      TotalPhases |-> TotalPhases(s)]

\* Variant of BuildEvent: CycleNum is the count of completed cycles itself.
BuildEvent_ZeroBasedCycle(s, now, st, d) ==
  LET elapsed == now - st
      remaining == IF d - elapsed < 0 THEN 0 ELSE d - elapsed
  IN [Phase |-> CurrentPhase(s),
      Elapsed |-> elapsed,
      Remaining |-> remaining,
      Total |-> d,
      Fraction |-> Fraction(elapsed, d),
      PhaseComplete |-> elapsed >= d,
      CycleNum |-> CyclesComplete(s),
      TotalCycles |-> TotalCycles(s),
      PhaseNum |-> PhasesComplete(s) + 1,
      TotalPhases |-> TotalPhases(s)]

\* The event runPhase builds at the top of its loop.
BuildEvent(s, now, st, d) ==
  LET elapsed == now - st
      remaining == IF d - elapsed < 0 THEN 0 ELSE d - elapsed
  IN [Phase |-> CurrentPhase(s),
      Elapsed |-> elapsed,
      Remaining |-> remaining,
      Total |-> d,
      Fraction |-> Fraction(elapsed, d),
      PhaseComplete |-> elapsed >= d,
      CycleNum |-> CyclesComplete(s) + 1,
      TotalCycles |-> TotalCycles(s),
      PhaseNum |-> PhasesComplete(s) + 1,
      TotalPhases |-> TotalPhases(s)]

\* ------------------------------------------------------------------ Init
\* The state before anything is constructed, for a configuration of cfgs.
InitWith(cfgs) ==
  /\ cfg \in cfgs
  /\ tickInterval \in 1..MaxTick
  /\ built = FALSE
  /\ session = ZeroSession
  /\ visited = <<>>
  /\ lastCall = [from |-> "none", ret |-> "none"]
  /\ lastDuration = -1
  /\ advanceCall = [made |-> FALSE, before |-> NewMockClock(0), d |-> 0]
  /\ clock = NewMockClock(0)
  /\ pc = "new"
  /\ start = 0
  /\ duration = 0
  /\ ticker = 0
  /\ event = ZeroEvent
  /\ received = <<>>
  /\ closed = 0
  /\ result = NotReturned
  /\ ctxDone = FALSE
  /\ cpc = "range"
  /\ ticksConsumed = 0
  /\ earlyCancel = FALSE
  /\ lateSend = FALSE

Init == InitWith(Config)

SessionInit == InitWith(ConfigsUpTo(MaxSessionEvery, MaxSessionCycles))

\* ------------------------------------------------------------------ Session calls
\* NewSession(cfg), called directly.
NewSessionCall ==
  /\ ~built
  /\ built' = TRUE
  /\ session' = NewSession(cfg)
  /\ visited' = <<NewSession(cfg).currentPhase>>
  /\ UNCHANGED <<harnessVars, lastCall, clock, timerVars, channelVars,
                 cancelVars, ticksConsumed>>

\* s.NextPhase(), called directly on a constructed Session.
SessionNextPhase ==
  /\ built
  /\ pc = "new"
  /\ Len(visited) < MaxCalls
  /\ CallNextPhase
  /\ UNCHANGED <<harnessVars, built, clock, timerVars, channelVars,
                 cancelVars, ticksConsumed>>

\* s.PhaseDuration(), called directly on a constructed Session.
SessionPhaseDuration ==
  /\ built
  /\ pc = "new"
  /\ lastDuration' = PhaseDuration(session)
  /\ UNCHANGED <<cfg, tickInterval, advanceCall, built, sessionVars, clock,
                 timerVars, channelVars, cancelVars, ticksConsumed>>

SessionNext == NewSessionCall \/ SessionNextPhase \/ SessionPhaseDuration

SessionSpec == SessionInit /\ [][SessionNext]_vars

\* ------------------------------------------------------------------ Timer
\* NewTimerWithClock(cfg, clock, tickInterval).
NewTimerWithClock ==
  /\ pc = "new"
  /\ ~built
  /\ built' = TRUE
  /\ session' = NewSession(cfg)
  /\ visited' = <<NewSession(cfg).currentPhase>>
  /\ pc' = "run"
  /\ UNCHANGED <<harnessVars, lastCall, clock, start, duration, ticker,
                 event, channelVars, cancelVars, ticksConsumed>>

\* Variant of RunReturnNil: close(events) is not deferred and was left out
\* of the normal return.
RunReturnNil_NoClose ==
  /\ pc = "run"
  /\ CurrentPhase(session) = PhaseDone
  /\ result' = ErrNil
  /\ pc' = "returned"
  /\ UNCHANGED <<harnessVars, built, sessionVars, clock, start, duration,
                 ticker, event, received, closed, cpc, lateSend, cancelVars,
                 ticksConsumed>>

\* Run: the loop condition fails, the deferred close(events) runs, Run returns nil.
RunReturnNil ==
  /\ pc = "run"
  /\ CurrentPhase(session) = PhaseDone
  /\ closed' = closed + 1
  /\ result' = ErrNil
  /\ pc' = "returned"
  /\ UNCHANGED <<harnessVars, built, sessionVars, clock, start, duration,
                 ticker, event, received, cpc, lateSend, cancelVars,
                 ticksConsumed>>

\* Variant of RunPhaseSkip: runPhase has no `if duration == 0` and runs the
\* phase as any other.
RunPhaseSkip_NoEarlyReturn ==
  /\ pc = "run"
  /\ CurrentPhase(session) # PhaseDone
  /\ PhaseDuration(session) = 0
  /\ duration' = PhaseDuration(session)
  /\ start' = Now(clock)
  /\ clock' = NewTicker(clock, tickInterval)
  /\ ticker' = Len(clock.tickers) + 1
  /\ pc' = "loop"
  /\ UNCHANGED <<harnessVars, built, sessionVars, event, channelVars,
                 cancelVars, ticksConsumed>>

\* Run: runPhase finds duration == 0 and returns nil; Run calls NextPhase().
RunPhaseSkip ==
  /\ pc = "run"
  /\ CurrentPhase(session) # PhaseDone
  /\ PhaseDuration(session) = 0
  /\ TotalCycles(session) > 0 \/ PhasesComplete(session) < MaxPhases
  /\ duration' = PhaseDuration(session)
  /\ CallNextPhase
  /\ UNCHANGED <<harnessVars, built, clock, pc, start, ticker, event,
                 channelVars, cancelVars, ticksConsumed>>

\* runPhase: duration != 0; start := clock.Now(); ticker := clock.NewTicker().
RunPhaseStart ==
  /\ pc = "run"
  /\ CurrentPhase(session) # PhaseDone
  /\ PhaseDuration(session) # 0
  /\ duration' = PhaseDuration(session)
  /\ start' = Now(clock)
  /\ clock' = NewTicker(clock, tickInterval)
  /\ ticker' = Len(clock.tickers) + 1
  /\ pc' = "loop"
  /\ UNCHANGED <<harnessVars, built, sessionVars, event, channelVars,
                 cancelVars, ticksConsumed>>

\* runPhase: the top of the loop, up to the first select.
LoopBuildEvent ==
  /\ pc = "loop"
  /\ event' = BuildEvent(session, Now(clock), start, duration)
  /\ pc' = "send"
  /\ UNCHANGED <<harnessVars, built, sessionVars, clock, start, duration,
                 ticker, channelVars, cancelVars, ticksConsumed>>

\* Variant of SendEvent: no `if event.PhaseComplete { return nil }`.
SendEvent_NoCompleteReturn ==
  /\ pc = "send"
  /\ cpc = "range"
  /\ received' = Append(received, event)
  /\ lateSend' = (lateSend \/ closed > 0)
  /\ cpc' = "update"
  /\ pc' = "wait"
  /\ UNCHANGED <<harnessVars, built, sessionVars, clock, start, duration,
                 ticker, event, closed, result, cancelVars, ticksConsumed>>

\* runPhase: the first select takes `events <- event`; the receiver is the
\* range loop of runStart, which the unbuffered channel hands the event to.
SendEvent ==
  /\ pc = "send"
  /\ cpc = "range"
  /\ received' = Append(received, event)
  /\ lateSend' = (lateSend \/ closed > 0)
  /\ cpc' = "update"
  /\ pc' = IF event.PhaseComplete THEN "complete" ELSE "wait"
  /\ UNCHANGED <<harnessVars, built, sessionVars, clock, start, duration,
                 ticker, event, closed, result, cancelVars, ticksConsumed>>

\* Variant of ReturnCtxErr: close(events) is not deferred and runs only after
\* the loop of Run, so the error return leaves the channel open.
ReturnCtxErr_NoClose ==
  /\ clock' = Stop(clock, ticker)
  /\ result' = ErrCanceled
  /\ pc' = "returned"
  /\ UNCHANGED <<harnessVars, built, sessionVars, start, duration,
                 ticker, event, received, closed, cpc, lateSend, cancelVars,
                 ticksConsumed>>

\* runPhase returns ctx.Err(): the deferred ticker.Stop() runs, Run returns the
\* error and its deferred close(events) runs.
ReturnCtxErr ==
  /\ clock' = Stop(clock, ticker)
  /\ closed' = closed + 1
  /\ result' = ErrCanceled
  /\ pc' = "returned"
  /\ UNCHANGED <<harnessVars, built, sessionVars, start, duration,
                 ticker, event, received, cpc, lateSend, cancelVars,
                 ticksConsumed>>

\* runPhase: the first select takes `<-ctx.Done()`.
SendCancelled ==
  /\ pc = "send"
  /\ ctxDone
  /\ ReturnCtxErr

\* Variant of RunPhaseComplete: runPhase advances the Session itself before
\* it returns, and Run advances it again.
RunPhaseComplete_AdvancesTwice ==
  /\ pc = "complete"
  /\ TotalCycles(session) > 0 \/ PhasesComplete(session) < MaxPhases
  /\ clock' = Stop(clock, ticker)
  /\ session' = NextPhase(NextPhase(session))
  /\ lastCall' = [from |-> NextPhase(session).currentPhase,
                  ret |-> NextPhase(NextPhase(session)).currentPhase]
  /\ visited' =
       LET v1 == Append(visited, NextPhase(session).currentPhase)
       IN IF NextPhase(session).currentPhase = PhaseDone THEN v1
          ELSE Append(v1, NextPhase(NextPhase(session)).currentPhase)
  /\ pc' = "run"
  /\ UNCHANGED <<harnessVars, built, start, duration, ticker, event,
                 channelVars, cancelVars, ticksConsumed>>

\* runPhase: event.PhaseComplete, return nil (ticker.Stop() deferred); Run
\* calls NextPhase().
RunPhaseComplete ==
  /\ pc = "complete"
  /\ TotalCycles(session) > 0 \/ PhasesComplete(session) < MaxPhases
  /\ clock' = Stop(clock, ticker)
  /\ CallNextPhase
  /\ pc' = "run"
  /\ UNCHANGED <<harnessVars, built, start, duration, ticker, event,
                 channelVars, cancelVars, ticksConsumed>>

\* runPhase: the second select takes `<-ticker.C()`.
WaitTick ==
  /\ pc = "wait"
  /\ Len(clock.tickers[ticker].ch) > 0
  /\ clock' = [clock EXCEPT !.tickers[ticker].ch = Tail(@)]
  /\ ticksConsumed' = ticksConsumed + 1
  /\ pc' = "loop"
  /\ UNCHANGED <<harnessVars, built, sessionVars, start, duration,
                 ticker, event, channelVars, cancelVars>>

\* runPhase: the second select takes `<-ctx.Done()`.
WaitCancelled ==
  /\ pc = "wait"
  /\ ctxDone
  /\ ReturnCtxErr

\* ------------------------------------------------------------------ runStart
\* The body of `for event := range events`: progress.Update(event).
ProgressUpdate ==
  /\ cpc = "update"
  /\ cpc' = "range"
  /\ UNCHANGED <<harnessVars, built, sessionVars, clock, timerVars,
                 received, closed, result, lateSend, cancelVars, ticksConsumed>>

\* The range loop ends on the closed channel; runStart reads errChan.
RangeClosed ==
  /\ cpc = "range"
  /\ closed > 0
  /\ result # NotReturned
  /\ cpc' = IF result # ErrNil /\ result # ErrCanceled THEN "exit1" ELSE "complete"
  /\ UNCHANGED <<harnessVars, built, sessionVars, clock, timerVars,
                 received, closed, result, lateSend, cancelVars, ticksConsumed>>

\* The signal goroutine calls cancel() while Run has not returned.
Cancel ==
  /\ pc # "new"
  /\ result = NotReturned
  /\ ~ctxDone
  /\ ctxDone' = TRUE
  /\ earlyCancel' = (ticksConsumed = 0)
  /\ UNCHANGED <<harnessVars, built, sessionVars, clock, timerVars,
                 channelVars, ticksConsumed>>

\* Time passes while Run has not returned: clock.Advance(d).
ClockAdvance ==
  /\ pc # "new"
  /\ result = NotReturned
  /\ \E d \in 0..MaxAdvance :
       /\ Now(clock) + d <= MaxTime
       /\ clock' = Advance(clock, d)
  /\ UNCHANGED <<harnessVars, built, sessionVars, timerVars, channelVars,
                 cancelVars, ticksConsumed>>

Next ==
  \/ NewTimerWithClock
  \/ RunReturnNil
  \/ RunPhaseSkip
  \/ RunPhaseStart
  \/ LoopBuildEvent
  \/ SendEvent
  \/ SendCancelled
  \/ RunPhaseComplete
  \/ WaitTick
  \/ WaitCancelled
  \/ ProgressUpdate
  \/ RangeClosed
  \/ Cancel
  \/ ClockAdvance

Spec == Init /\ [][Next]_vars

\* ------------------------------------------------------------------ uncancelled runs
\* A bounded run on a virtual clock that a driver keeps advancing while a
\* phase is under way (its deadline is ahead, or the timer waits for a tick),
\* with a consumer that keeps draining events, and no cancel().
RunLength(c) ==
  LET breaks == c.TotalCycles - 1
      longBreaks == IF c.LongBreakEvery > 0
                    THEN breaks \div c.LongBreakEvery ELSE 0
  IN c.TotalCycles * c.WorkDuration
     + longBreaks * c.LongBreakDuration
     + (breaks - longBreaks) * c.ShortBreakDuration

LiveInit ==
  InitWith({c \in ConfigsUpTo(MaxEvery, MaxLiveCycles) :
              c.TotalCycles > 0 /\ RunLength(c) <= MaxLiveTime})

\* The driver's clock.Advance(d), d > 0.
DriverAdvance ==
  /\ pc \in {"loop", "send", "wait"}
  /\ \/ Now(clock) < start + duration
     \/ pc = "wait" /\ Len(clock.tickers[ticker].ch) = 0
  /\ \E d \in 1..MaxAdvance : clock' = Advance(clock, d)
  /\ UNCHANGED <<harnessVars, built, sessionVars, timerVars, channelVars,
                 cancelVars, ticksConsumed>>

\* The goroutine of Timer.Run when ctx is never done.
LiveProducer ==
  \/ NewTimerWithClock
  \/ RunReturnNil
  \/ RunPhaseSkip
  \/ RunPhaseStart
  \/ LoopBuildEvent
  \/ SendEvent
  \/ RunPhaseComplete
  \/ WaitTick

\* The goroutine of runStart.
LiveConsumer == ProgressUpdate \/ RangeClosed

LiveNext == LiveProducer \/ LiveConsumer \/ DriverAdvance

\* The Go scheduler runs every goroutine that can take a step; the driver
\* keeps advancing the clock.
LiveSpec ==
  /\ LiveInit
  /\ [][LiveNext]_vars
  /\ WF_vars(LiveProducer)
  /\ WF_vars(LiveConsumer)
  /\ WF_vars(DriverAdvance)

\* ------------------------------------------------------------------ MockClock calls
\* A MockClock used directly: tickers are created, stopped and read, and the
\* clock is advanced, one call after the other.
NoAdvanceCall == [made |-> FALSE, before |-> NewMockClock(0), d |-> 0]

ClockInit == InitWith({ZeroConfig})

\* clock.NewTicker(d) with a positive interval.
MockNewTicker ==
  /\ Len(clock.tickers) < MaxClockTickers
  /\ \E d \in 1..MaxClockInterval : clock' = NewTicker(clock, d)
  /\ advanceCall' = NoAdvanceCall
  /\ UNCHANGED <<cfg, tickInterval, lastDuration, built, sessionVars,
                 timerVars, channelVars, cancelVars, ticksConsumed>>

\* Stop() on one of the clock's tickers.
MockStop ==
  /\ \E i \in 1..Len(clock.tickers) :
       /\ ~clock.tickers[i].stopped
       /\ clock' = Stop(clock, i)
  /\ advanceCall' = NoAdvanceCall
  /\ UNCHANGED <<cfg, tickInterval, lastDuration, built, sessionVars,
                 timerVars, channelVars, cancelVars, ticksConsumed>>

\* <-t.C() on a ticker that has a tick pending.
MockReceive ==
  /\ \E i \in 1..Len(clock.tickers) :
       /\ Len(clock.tickers[i].ch) > 0
       /\ clock' = [clock EXCEPT !.tickers[i].ch = Tail(@)]
  /\ advanceCall' = NoAdvanceCall
  /\ UNCHANGED <<cfg, tickInterval, lastDuration, built, sessionVars,
                 timerVars, channelVars, cancelVars, ticksConsumed>>

\* clock.Advance(d) with d >= 0; the call and the clock it found are recorded.
MockAdvance ==
  /\ \E d \in 0..MaxClockAdvance :
       /\ Now(clock) + d <= MaxClockTime
       /\ clock' = Advance(clock, d)
       /\ advanceCall' = [made |-> TRUE, before |-> clock, d |-> d]
  /\ UNCHANGED <<cfg, tickInterval, lastDuration, built, sessionVars,
                 timerVars, channelVars, cancelVars, ticksConsumed>>

ClockNext == MockNewTicker \/ MockStop \/ MockReceive \/ MockAdvance

ClockSpec == ClockInit /\ [][ClockNext]_vars

\* ------------------------------------------------------------------ claims
\* A Session on which nothing has been called since NewSession.
Fresh == built /\ visited = <<PhaseWork>> /\ lastCall.from = "none"

\* The configured duration of phase p.
ConfiguredDuration(p) ==
  CASE p = PhaseWork -> cfg.WorkDuration
    [] p = PhaseShortBreak -> cfg.ShortBreakDuration
    [] p = PhaseLongBreak -> cfg.LongBreakDuration
    [] OTHER -> 0

\* C1: with C = TotalCycles > 0 and F = LongBreakEvery >= 0, TotalPhases() of
\* a freshly constructed Session is C + longBreaks + shortBreaks, where
\* longBreaks = floor((C-1)/F) and shortBreaks = (C-1) - longBreaks if F > 0,
\* and longBreaks = 0, shortBreaks = C-1 if F = 0; with C = 0 it is 0.
C1_TotalPhasesFormula ==
  Fresh =>
    LET C == cfg.TotalCycles
        F == cfg.LongBreakEvery
        longBreaks == IF F > 0 THEN (C - 1) \div F ELSE 0
        shortBreaks == (C - 1) - longBreaks
    IN IF C > 0 THEN TotalPhases(session) = C + longBreaks + shortBreaks
       ELSE TotalPhases(session) = 0

\* A fresh Session whose configuration has both long and short breaks.
C1_Witness ==
  /\ Fresh
  /\ cfg.TotalCycles = 3
  /\ cfg.LongBreakEvery = 2
  /\ TotalPhases(session) = 5

\* C2: on a Session with C = TotalCycles > 0, the NextPhase() call that
\* completes the C-th work cycle returns Done and leaves the Session in Done,
\* never in ShortBreak or LongBreak, whatever LongBreakEvery is.
C2_LastCycleGoesToDone ==
  (/\ built
   /\ cfg.TotalCycles > 0
   /\ lastCall.from = PhaseWork
   /\ CyclesComplete(session) = cfg.TotalCycles)
  => (lastCall.ret = PhaseDone /\ CurrentPhase(session) = PhaseDone)

\* The C-th work cycle has just completed where C is a multiple of F.
C2_Witness ==
  /\ built
  /\ cfg.TotalCycles > 0
  /\ cfg.LongBreakEvery > 0
  /\ cfg.TotalCycles % cfg.LongBreakEvery = 0
  /\ lastCall.from = PhaseWork
  /\ CyclesComplete(session) = cfg.TotalCycles
  /\ CurrentPhase(session) = PhaseDone

\* C3: the phases a Session visits under repeated NextPhase() are Work,
\* (ShortBreak|LongBreak, Work)*, ending at Done after exactly C work phases
\* when C > 0; when C = 0 Work and break alternate and Done is never reached.
C3_PhaseSequence ==
  built =>
    LET C == cfg.TotalCycles
    IN /\ Len(visited) >= 1
       /\ visited[Len(visited)] = CurrentPhase(session)
       /\ \A i \in 1..Len(visited) :
            IF C > 0 /\ i = 2 * C THEN visited[i] = PhaseDone
            ELSE IF i % 2 = 1 THEN visited[i] = PhaseWork
            ELSE visited[i] \in {PhaseShortBreak, PhaseLongBreak}
       /\ C > 0 => Len(visited) <= 2 * C
       /\ C = 0 => /\ CurrentPhase(session) # PhaseDone
                   /\ CurrentPhase(NextPhase(session)) # CurrentPhase(session)

\* A Session with several cycles that has gone through all of them to Done.
C3_Witness ==
  /\ built
  /\ cfg.TotalCycles >= 2
  /\ Len(visited) = 2 * cfg.TotalCycles
  /\ visited[Len(visited)] = PhaseDone
  /\ visited[2] = PhaseShortBreak

\* C4: NextPhase() on a Session whose current phase is Done returns Done and
\* leaves the current phase, the completed-cycle count, the completed-phase
\* count and the total-phase count unchanged, however often it is repeated.
C4_DoneIsIdempotent ==
  [][(built /\ CurrentPhase(session) = PhaseDone)
       => (/\ session' = session
           /\ lastCall' # lastCall =>
                (lastCall'.from = PhaseDone /\ lastCall'.ret = PhaseDone))]_vars

\* NextPhase() has been called on a Session that was in Done.
C4_Witness ==
  /\ built
  /\ lastCall.from = PhaseDone
  /\ lastCall.ret = PhaseDone
  /\ CurrentPhase(session) = PhaseDone

\* C5: if cancel() is called before the timer loop has consumed any tick,
\* the run has emitted at most one event and Run returns the cancellation
\* outcome, never nil.
C5_EarlyCancelOutcome ==
  (pc = "returned" /\ earlyCancel)
  => (Len(received) <= 1 /\ result = ErrCanceled)

\* C6: once cancel() has been called during a run, whatever the
\* configuration, Run ends by returning the cancellation outcome.
C6_CancelIsReported ==
  (pc = "returned" /\ ctxDone) => result = ErrCanceled

\* C7: whenever Run has returned, with nil or with the cancellation outcome,
\* events has been closed exactly once and nothing was sent after the close;
\* Run returns nil only with the Session in Done, and the cancellation
\* outcome otherwise.
C7_ClosedOnceOnReturn ==
  /\ closed <= 1
  /\ ~lateSend
  /\ pc # "returned" => (closed = 0 /\ result = NotReturned)
  /\ pc = "returned" =>
       /\ closed = 1
       /\ result \in {ErrNil, ErrCanceled}
       /\ result = ErrNil => CurrentPhase(session) = PhaseDone
       /\ CurrentPhase(session) # PhaseDone => result = ErrCanceled

\* Run has returned the cancellation outcome after handing over events.
C7_Witness ==
  /\ pc = "returned"
  /\ result = ErrCanceled
  /\ closed = 1
  /\ Len(received) >= 1
  /\ CurrentPhase(session) # PhaseDone

\* C8: every event emitted by Run has 0 <= Fraction <= 1, Remaining >= 0,
\* Elapsed >= 0, Total equal to the configured duration of its phase, and
\* PhaseComplete exactly when Elapsed >= Total.
C8_EventFields ==
  \A i \in 1..Len(received) :
    LET e == received[i]
    IN /\ e.Fraction[2] > 0
       /\ 0 <= e.Fraction[1]
       /\ e.Fraction[1] <= e.Fraction[2]
       /\ e.Remaining >= 0
       /\ e.Elapsed >= 0
       /\ e.Total = ConfiguredDuration(e.Phase)
       /\ e.PhaseComplete <=> (e.Elapsed >= e.Total)

\* An event whose Elapsed overshoots the duration of its phase was emitted,
\* after one that was mid-phase.
C8_Witness ==
  \E i, j \in 1..Len(received) :
    /\ received[i].Elapsed > received[i].Total
    /\ received[i].PhaseComplete
    /\ received[j].Elapsed > 0
    /\ ~received[j].PhaseComplete

\* C9: the events of a run arrive in emission order: PhaseNum never
\* decreases along the stream, two consecutive events of one phase have
\* non-decreasing Elapsed, and the phases follow the Session's order (Work
\* at the odd ordinals, a break at the even ones).
C9_EventOrder ==
  /\ \A i \in 1..Len(received) :
       IF received[i].PhaseNum % 2 = 1
       THEN received[i].Phase = PhaseWork
       ELSE received[i].Phase \in {PhaseShortBreak, PhaseLongBreak}
  /\ \A i \in 1..(Len(received) - 1) :
       LET e1 == received[i]
           e2 == received[i + 1]
       IN /\ e1.PhaseNum <= e2.PhaseNum
          /\ e1.PhaseNum = e2.PhaseNum =>
               (e1.Phase = e2.Phase /\ e1.Elapsed <= e2.Elapsed)

\* Two events of one phase with growing Elapsed, then one of a later phase.
C9_Witness ==
  \E i, j \in 1..Len(received) :
    /\ i + 1 < j
    /\ received[i].PhaseNum = received[i + 1].PhaseNum
    /\ received[i].Elapsed < received[i + 1].Elapsed
    /\ received[i + 1].PhaseNum < received[j].PhaseNum

\* C10: with TotalCycles = 0 the Session never reaches Done, Run never
\* returns nil, every emitted event carries TotalPhases = 0, and Run ends
\* only by returning the cancellation outcome after cancel() was called.
C10_InfiniteRun ==
  (built /\ cfg.TotalCycles = 0) =>
    /\ CurrentPhase(session) # PhaseDone
    /\ TotalPhases(session) = 0
    /\ result # ErrNil
    /\ \A i \in 1..Len(received) : received[i].TotalPhases = 0
    /\ pc = "returned" => (result = ErrCanceled /\ ctxDone)

\* An unbounded run that went through several phases and was then cancelled.
C10_Witness ==
  /\ cfg.TotalCycles = 0
  /\ PhasesComplete(session) >= 2
  /\ Len(received) >= 2
  /\ pc = "returned"
  /\ result = ErrCanceled

\* The scenario of one unit of work, short and long break each, no long
\* breaks, two cycles, one tick per unit.
C11_Scenario ==
  /\ cfg = [WorkDuration |-> 1, ShortBreakDuration |-> 1,
            LongBreakDuration |-> 1, LongBreakEvery |-> 0, TotalCycles |-> 2]
  /\ tickInterval = 1

\* Run has returned nil on a closed stream with the Session in Done; in the
\* scenario the phases were Work, ShortBreak, Work, Done, three in total.
C11_Succeeded ==
  /\ pc = "returned"
  /\ result = ErrNil
  /\ closed = 1
  /\ CurrentPhase(session) = PhaseDone
  /\ C11_Scenario =>
       /\ visited = <<PhaseWork, PhaseShortBreak, PhaseWork, PhaseDone>>
       /\ TotalPhases(session) = 3
       /\ {received[i].PhaseNum : i \in 1..Len(received)} = {1, 2, 3}
       /\ \A i \in 1..Len(received) :
            received[i].Phase = visited[received[i].PhaseNum]

\* C11: on a virtual clock that keeps being advanced, with a consumer that
\* keeps draining and no cancellation, a run with C > 0 cycles eventually
\* closes the stream and returns nil; with work = short = long, frequency 0
\* and 2 cycles the phases are Work, ShortBreak, Work, Done, 3 in total.
C11_BoundedRunSucceeds == <>C11_Succeeded

\* The scenario's run has returned nil.
C11_Witness == C11_Scenario /\ C11_Succeeded

\* C12: when NextPhase() leaves Work and the session is not finished, the
\* break after the k-th completed cycle is LongBreak if and only if F > 0
\* and k is a multiple of F, and ShortBreak otherwise; with F = 0 no
\* LongBreak is ever entered.
C12_BreakChoice ==
  built =>
    LET F == cfg.LongBreakEvery
        long(k) == F > 0 /\ k % F = 0
    IN /\ (lastCall.from = PhaseWork /\ CurrentPhase(session) # PhaseDone) =>
            /\ lastCall.ret = CurrentPhase(session)
            /\ CurrentPhase(session) =
                 IF long(CyclesComplete(session)) THEN PhaseLongBreak
                 ELSE PhaseShortBreak
       /\ \A i \in 1..Len(visited) :
            (i % 2 = 0 /\ visited[i] # PhaseDone) =>
              visited[i] = IF long(i \div 2) THEN PhaseLongBreak
                           ELSE PhaseShortBreak
       /\ F = 0 => \A i \in 1..Len(visited) : visited[i] # PhaseLongBreak

\* Four cycles with a long break every second: short, long, short.
C12_Witness ==
  /\ built
  /\ cfg.TotalCycles = 4
  /\ cfg.LongBreakEvery = 2
  /\ lastCall.from = PhaseWork
  /\ CyclesComplete(session) = 3
  /\ visited = <<PhaseWork, PhaseShortBreak, PhaseWork, PhaseLongBreak,
                 PhaseWork, PhaseShortBreak>>

\* C15: no operation changes TotalPhases() or the configuration; every
\* NextPhase() from a phase other than Done adds exactly 1 to the completed
\* phases, and 1 to the completed cycles if the phase left was Work, else 0;
\* PhaseDuration() changes nothing of the Session.
C15_FrameAndCounters ==
  [][built =>
       /\ session'.config = cfg
       /\ session'.totalPhases = session.totalPhases
       /\ TotalPhases(session') = TotalPhases(NewSession(cfg))
       /\ visited' # visited =>
            /\ CurrentPhase(session) # PhaseDone
            /\ PhasesComplete(session') = PhasesComplete(session) + 1
            /\ CyclesComplete(session') = CyclesComplete(session)
                 + (IF CurrentPhase(session) = PhaseWork THEN 1 ELSE 0)
       /\ visited' = visited => session' = session
       /\ lastDuration' # lastDuration =>
            lastDuration' = ConfiguredDuration(CurrentPhase(session))]_vars

\* NextPhase() has left a break and PhaseDuration() has been called.
C15_Witness ==
  /\ built
  /\ lastCall.from = PhaseLongBreak
  /\ lastDuration > 0
  /\ PhasesComplete(session) = 4
  /\ CyclesComplete(session) = 2
  /\ TotalPhases(session) = 5

\* C18: with C > 0, in every state the completed cycles are at most C and
\* the completed phases at most TotalPhases(); the Session is in Done
\* exactly when the completed cycles equal C, and then the completed phases
\* equal TotalPhases(), for every frequency.
C18_CountersWithinTotals ==
  (built /\ cfg.TotalCycles > 0) =>
    /\ CyclesComplete(session) <= cfg.TotalCycles
    /\ PhasesComplete(session) <= TotalPhases(session)
    /\ CurrentPhase(session) = PhaseDone
         <=> CyclesComplete(session) = cfg.TotalCycles
    /\ CurrentPhase(session) = PhaseDone
         => PhasesComplete(session) = TotalPhases(session)

\* A Session with long and short breaks that has reached Done.
C18_Witness ==
  /\ built
  /\ cfg.TotalCycles = 4
  /\ cfg.LongBreakEvery = 3
  /\ CurrentPhase(session) = PhaseDone
  /\ PhasesComplete(session) = 7
  /\ TotalPhases(session) = 7

\* The i-th received event is the last one received for its phase.
LastOfPhase(i) ==
  i = Len(received) \/ received[i + 1].PhaseNum # received[i].PhaseNum

\* C13: for every phase of positive duration that ends without
\* cancellation, the last event of the phase has PhaseComplete and no
\* earlier one has; after an event with PhaseComplete the timer emits no
\* further event for that phase and calls NextPhase() exactly once.
C13_CompleteEndsPhase ==
  /\ [](/\ \A i \in 1..Len(received) :
             /\ received[i].PhaseComplete => LastOfPhase(i)
             /\ (received[i].PhaseNum <= PhasesComplete(session)
                 /\ LastOfPhase(i)) => received[i].PhaseComplete
        /\ pc = "complete" =>
             /\ Len(received) >= 1
             /\ received[Len(received)].PhaseComplete
             /\ received[Len(received)].PhaseNum = PhasesComplete(session) + 1
        /\ (Len(received) >= 1 /\ received[Len(received)].PhaseComplete
            /\ pc # "complete") =>
             received[Len(received)].PhaseNum <= PhasesComplete(session))
  /\ [][(pc = "complete" /\ pc' # "complete") =>
          /\ pc' = "run"
          /\ received' = received
          /\ PhasesComplete(session') = PhasesComplete(session) + 1]_vars

\* A phase with a mid-phase event and a completing one, then the next phase.
C13_Witness ==
  /\ Len(received) >= 3
  /\ received[1].PhaseNum = 1
  /\ ~received[1].PhaseComplete
  /\ received[2].PhaseNum = 1
  /\ received[2].PhaseComplete
  /\ received[3].PhaseNum = 2

\* C19: in every event of a run with C > 0, 1 <= CycleNum <= TotalCycles
\* and 1 <= PhaseNum <= TotalPhases, with CycleNum the completed cycles + 1
\* and PhaseNum the completed phases + 1 when it is emitted; no event has
\* Phase = Done.
C19_EventCounters ==
  /\ \A i \in 1..Len(received) : received[i].Phase # PhaseDone
  /\ cfg.TotalCycles > 0 =>
       /\ \A i \in 1..Len(received) :
            LET e == received[i]
            IN /\ e.TotalCycles = cfg.TotalCycles
               /\ e.TotalPhases = TotalPhases(session)
               /\ 1 <= e.CycleNum
               /\ e.CycleNum <= e.TotalCycles
               /\ 1 <= e.PhaseNum
               /\ e.PhaseNum <= e.TotalPhases
               /\ e.Phase # PhaseWork => e.CycleNum - 1 >= 1
       /\ pc \in {"send", "wait", "complete"} =>
            /\ event.CycleNum = CyclesComplete(session) + 1
            /\ event.PhaseNum = PhasesComplete(session) + 1
            /\ event.Phase = CurrentPhase(session)

\* An event of the last cycle and last phase of a bounded run was emitted.
C19_Witness ==
  /\ cfg.TotalCycles = 2
  /\ \E i \in 1..Len(received) :
       /\ received[i].CycleNum = 2
       /\ received[i].PhaseNum = 3
       /\ received[i].TotalPhases = 3
  /\ \E i \in 1..Len(received) :
       /\ received[i].Phase # PhaseWork
       /\ received[i].CycleNum = 2

\* The number of received events with PhaseComplete.
CompleteCount ==
  Cardinality({i \in 1..Len(received) : received[i].PhaseComplete})

\* The number of phases of a finished bounded run with a positive duration.
PositivePhases ==
  Cardinality({i \in 1..TotalPhases(session) :
                 ConfiguredDuration(visited[i]) > 0})

\* Run has returned nil on a run with C > 0.
BoundedSuccess ==
  pc = "returned" /\ result = ErrNil /\ cfg.TotalCycles > 0

\* C20, as stated: in a run with C > 0 that returns nil, the number of
\* events with PhaseComplete equals TotalPhases, one per phase.
C20_OneCompletePerPhase ==
  BoundedSuccess => CompleteCount = TotalPhases(session)

\* C20, amended: in a run with C > 0 that returns nil, the number of events
\* with PhaseComplete equals the number of phases of the run whose
\* configured duration is positive; it equals TotalPhases exactly when no
\* phase of the run has duration zero.
C20_OneCompletePerPositivePhase ==
  BoundedSuccess =>
    /\ CompleteCount = PositivePhases
    /\ CompleteCount = TotalPhases(session)
         <=> \A i \in 1..TotalPhases(session) :
               ConfiguredDuration(visited[i]) > 0

\* A successful run of two cycles whose short break has duration zero.
C20_Witness ==
  /\ BoundedSuccess
  /\ cfg.TotalCycles = 2
  /\ cfg.WorkDuration > 0
  /\ cfg.ShortBreakDuration = 0
  /\ cfg.LongBreakEvery = 0
  /\ TotalPhases(session) = 3
  /\ CompleteCount = 2

\* The number of phases runPhase has got past its duration test for: the
\* completed ones and the one in progress or left on cancellation.
PhasesEntered ==
  PhasesComplete(session)
    + (IF pc \in {"loop", "send", "wait", "complete"} \/ result = ErrCanceled
         THEN 1 ELSE 0)

\* The run of three cycles with a zero short break and no long breaks.
C14_Scenario ==
  /\ cfg.TotalCycles = 3
  /\ cfg.ShortBreakDuration = 0
  /\ cfg.LongBreakEvery = 0
  /\ cfg.WorkDuration > 0

\* C14: a phase whose configured duration is zero emits no event and
\* registers no ticker, yet NextPhase() is called for it and counts it in
\* the completed phases (and cycles, for Work); with short = 0, cycles = 3,
\* frequency = 0 no ShortBreak event is emitted and the completed phases
\* reach 5.
C14_ZeroDurationSkipped ==
  built =>
    /\ \A i \in 1..Len(received) :
         /\ received[i].Total > 0
         /\ ConfiguredDuration(received[i].Phase) > 0
    /\ Len(clock.tickers) =
         Cardinality({i \in 1..PhasesEntered :
                        ConfiguredDuration(visited[i]) > 0})
    /\ Len(visited) = PhasesComplete(session) + 1
    /\ CyclesComplete(session) =
         Cardinality({i \in 1..PhasesComplete(session) :
                        visited[i] = PhaseWork})
    /\ (C14_Scenario /\ pc = "returned") =>
         /\ PhasesComplete(session) = 5
         /\ \A i \in 1..Len(received) : received[i].Phase # PhaseShortBreak

\* The scenario's run has ended after its three work phases sent events.
C14_Witness ==
  /\ C14_Scenario
  /\ pc = "returned"
  /\ PhasesComplete(session) = 5
  /\ CyclesComplete(session) = 3
  /\ Len(clock.tickers) = 3
  /\ {received[i].PhaseNum : i \in 1..Len(received)} = {1, 3, 5}

\* The instant the recorded Advance call was to reach.
AdvanceTarget == advanceCall.before.current + advanceCall.d

\* C16: Advance(D) with D >= 0 leaves Now() at the previous instant plus D
\* and fires every non-stopped ticker due at or before the target,
\* rescheduling each by its interval, so that after the call no non-stopped
\* ticker is still due at or before the target, several tickers due at
\* exactly the target included.
C16_AdvanceFiresAllDue ==
  advanceCall.made =>
    /\ Now(clock) = AdvanceTarget
    /\ \A i \in 1..Len(clock.tickers) :
         LET b == advanceCall.before.tickers[i]
             a == clock.tickers[i]
         IN /\ (~b.stopped /\ b.nextTick <= AdvanceTarget) =>
                 /\ a.nextTick > AdvanceTarget
                 /\ a.nextTick > b.nextTick
                 /\ (a.nextTick - b.nextTick) % b.interval = 0
                 /\ Len(a.ch) = 1
            /\ (b.stopped \/ b.nextTick > AdvanceTarget) => a = b

\* C17: a ticker's channel never holds more than one tick; a tick fired
\* while one is pending is dropped and the pending one stays; Advance reaches
\* its target with no receive in between; a stopped ticker is never fired
\* again: its next-fire instant stays and its channel gains nothing.
C17_NonBlockingDelivery ==
  /\ [](\A i \in 1..Len(clock.tickers) : Len(clock.tickers[i].ch) <= 1)
  /\ [](advanceCall.made => Now(clock) = AdvanceTarget)
  /\ [][\A i \in 1..Len(clock.tickers) :
          LET b == clock.tickers[i]
              a == clock'.tickers[i]
          IN /\ b.stopped =>
                  /\ a.stopped
                  /\ a.nextTick = b.nextTick
                  /\ Len(a.ch) <= Len(b.ch)
             /\ (Len(b.ch) = 1 /\ a.nextTick # b.nextTick) => a.ch = b.ch]_vars

\* An Advance call has just fired a ticker that had a tick pending, passed
\* over a stopped ticker that was due, and found no receiver.
C17_Witness ==
  /\ advanceCall.made
  /\ advanceCall.d > 0
  /\ \E i, j \in 1..Len(clock.tickers) :
       /\ Len(advanceCall.before.tickers[i].ch) = 1
       /\ ~advanceCall.before.tickers[i].stopped
       /\ clock.tickers[i].nextTick > advanceCall.before.tickers[i].nextTick
       /\ clock.tickers[i].ch = advanceCall.before.tickers[i].ch
       /\ advanceCall.before.tickers[j].stopped
       /\ advanceCall.before.tickers[j].nextTick <= AdvanceTarget
       /\ clock.tickers[j] = advanceCall.before.tickers[j]

====
